---------------------------- MODULE Spec2Model ----------------------------
(***************************************************************************)
(* A model of src/qt/walletmodel.cpp: the wallet as the GUI model sees it  *)
(* (available coins, recorded transactions, address book, key pool, the    *)
(* two critical sections cs_main and wallet->cs_wallet),                   *)
(* WalletModel::sendCoins as a sequence of steps of a calling thread,      *)
(* pollBalanceChanged on the thread of its timer, and the other functions  *)
(* that take the critical sections.                                        *)
(***************************************************************************)
EXTENDS Integers, Sequences, FiniteSets, TLC

VARIABLES
    cs_main,        \* holder of the chain-state critical section, or Free
    cs_wallet,      \* holder of wallet->cs_wallet, or Free
    coinState,      \* per coin of the universe: "unseen", "avail" or "spent"
    mapWallet,      \* wallet->mapWallet: the set of recorded transactions
    mapAddressBook, \* wallet->mapAddressBook and the stealth labels, by address
    reservedKeys,   \* threads holding a reserved, not yet kept, change key
    nKeysUsed,      \* change keys taken from the key pool for good
    snd,            \* per calling thread: the locals of its sendCoins call
    nBestHeight,    \* the height of the best chain
    cachedNumBlocks,\* WalletModel::cachedNumBlocks
    cachedBalance,  \* WalletModel::cachedBalance
    thr,            \* per other thread: the function it runs and where it is
    balances,       \* the wallet's locked, staked, unconfirmed and immature sums
    cachedLockedBalance,      \* WalletModel::cachedLockedBalance, as a set
    cachedStake,              \* WalletModel::cachedStake
    cachedUnconfirmedBalance, \* WalletModel::cachedUnconfirmedBalance
    cachedImmatureBalance,    \* WalletModel::cachedImmatureBalance
    balanceChanged, \* what the last call of checkBalanceChanged emitted
    lastRead,       \* the balances the last call of checkBalanceChanged read
    encryptionStatus,         \* the wallet: "Unencrypted", "Locked" or "Unlocked"
    fWalletUnlockStakingOnly, \* the process-wide staking-only flag
    context,        \* per UnlockContext object: its life and its members
    relocked        \* per requestUnlock call: the locks its contexts' destructors made

vars == <<cs_main, cs_wallet, coinState, mapWallet, mapAddressBook,
          reservedKeys, nKeysUsed, snd, nBestHeight, cachedNumBlocks,
          cachedBalance, thr, balances, cachedLockedBalance, cachedStake,
          cachedUnconfirmedBalance, cachedImmatureBalance, balanceChanged,
          lastRead, encryptionStatus, fWalletUnlockStakingOnly, context,
          relocked>>

\* what sendCoins never touches: the chain height, the cache of the model
\* and the other threads
\* the rest of the cache of checkBalanceChanged, with what it emitted
cacheVars == <<cachedLockedBalance, cachedStake, cachedUnconfirmedBalance,
               cachedImmatureBalance, balanceChanged, lastRead>>

\* what sendCoins and the wallet's other functions leave alone
unlockVars == <<encryptionStatus, fWalletUnlockStakingOnly, context, relocked>>
other == <<balances, cacheVars, unlockVars>>

gui == <<nBestHeight, cachedNumBlocks, cachedBalance, thr, other>>

wallet == <<coinState, mapWallet, mapAddressBook, reservedKeys, nKeysUsed>>

-----------------------------------------------------------------------------
(* Bounds and program constants *)

\* the most recipients in one request
MaxRecipients == 2

\* sAddr.length() > 75 : the short-address threshold of validateAddress
ShortAddrLen == 75

\* sNarr.length() > 24 : the longest narration, in raw bytes
MaxNarration == 24

\* vchNarr.size() > 48 : the longest encrypted narration
MaxCipher == 48

\* nTransactionFee, the fee the optimistic pre-check assumes
nTransactionFee == 10

Free == "free"
Senders == {"s1", "s2"}
NoLabel == "<none>"

-----------------------------------------------------------------------------
(* Generic helpers *)

RECURSIVE SeqSum(_)
SeqSum(s) == IF s = <<>> THEN 0 ELSE Head(s) + SeqSum(Tail(s))

RECURSIVE Concat(_)
Concat(ss) == IF ss = <<>> THEN <<>> ELSE Head(ss) \o Concat(Tail(ss))

Min(S) == CHOOSE x \in S : \A y \in S : x <= y

\* s with x inserted so that it ends at 0-based position pos
InsertAt(s, pos, x) == SubSeq(s, 1, pos) \o <<x>> \o SubSeq(s, pos + 1, Len(s))

-----------------------------------------------------------------------------
(* The inputs: addresses, narrations, recipients, requests *)

\* A destination string: its text, its length, and how it decodes.
\* enc = "std": a valid standard address; "stealth": a valid stealth
\* address; "bad": neither.
AddrA == [s |-> "A", length |-> 34, enc |-> "std"]
AddrB == [s |-> "B", length |-> 34, enc |-> "std"]
AddrS == [s |-> "S", length |-> 102, enc |-> "stealth"]
AddrT == [s |-> "T", length |-> 102, enc |-> "stealth"]
AddrX == [s |-> "X", length |-> 34, enc |-> "bad"]
Addresses == {AddrA, AddrB, AddrS, AddrT, AddrX}
AddrNames == {a.s : a \in Addresses}

\* A QString is a sequence of characters; "a" is one byte of UTF-8 and
\* "e'" (an accented letter) is two.
NarrOf(c, n) == [i \in 1..n |-> c]

\* no narration; one of 24 bytes; one of 25 bytes in 14 characters
Narr24 == NarrOf("a", MaxNarration)
Narr25 == NarrOf("e'", (MaxNarration \div 2) - 1) \o NarrOf("a", 3)
Narrations == {<<>>, Narr24, Narr25}

Utf8(c) == IF c = "a" THEN <<97>> ELSE <<195, 169>>

\* QString::toStdString : the UTF-8 bytes of the string
toStdString(q) == Concat([i \in 1..Len(q) |-> Utf8(q[i])])

AT_Normal == "AT_Normal"
AT_Stealth == "AT_Stealth"
Amounts == {-500, 0, 500, 1000}
Labels == {"shop"}

\* The recipients of the model.  A field that sendCoins returns before
\* reading (all but the amount of an invalid address, the narration and
\* kind of a non-positive amount) takes one value only; the amounts 0 and
\* below are tried with A and with the invalid address; the amount 1000
\* is that of a plain payment to A; a kind that does not fit the address
\* is tried with A (stealth kind, standard address) and with S (normal
\* kind, stealth address, no narration); T is always narrated.
Plain(r) == r.narration = <<>> /\ r.typeInd = AT_Normal
Recipients ==
    {r \in [address : Addresses, amount : Amounts, narration : Narrations,
            typeInd : {AT_Normal, AT_Stealth}, label : Labels] :
       /\ r.address = AddrX => Plain(r) /\ r.amount \in {0, 500}
       /\ r.amount <= 0 => Plain(r) /\ r.address \in {AddrA, AddrX}
       /\ r.amount = 1000 => Plain(r) /\ r.address = AddrA
       /\ r.address = AddrB => r.typeInd = AT_Normal
       /\ r.address = AddrS /\ r.typeInd = AT_Normal => r.narration = <<>>
       /\ r.address = AddrT => r.typeInd = AT_Stealth /\ r.narration = Narr24}

RECURSIVE SeqsUpTo(_, _)
SeqsUpTo(S, n) ==
    IF n = 0 THEN {<<>>}
    ELSE LET shorter == SeqsUpTo(S, n - 1)
         IN shorter \cup {Append(q, x) : q \in {r \in shorter : Len(r) = n - 1}, x \in S}

Requests == SeqsUpTo(Recipients, MaxRecipients)

\* The coins the wallet may ever hold, and their values
CoinIds == {"c1", "c2"}
CoinValue == [c \in CoinIds |-> IF c = "c1" THEN 1000 ELSE 515]

RECURSIVE SetSum(_)
SetSum(S) == IF S = {} THEN 0
             ELSE LET c == CHOOSE x \in S : TRUE
                  IN CoinValue[c] + SetSum(S \ {c})

-----------------------------------------------------------------------------
(* Address validation *)

IsStealthAddress(a) == a.enc = "stealth"
IsValidBitcoinAddress(a) == a.enc = "std"

validateAddress(address) ==
    IF address.length > ShortAddrLen /\ IsStealthAddress(address)
    THEN TRUE
    ELSE IsValidBitcoinAddress(address)

-----------------------------------------------------------------------------
(* sendCoins, lines 218-242: the pre-check of the input data *)

AmountInvalidLoose(amount) == amount < 0
AmountInvalid(amount) == amount <= 0

HasDuplicatesNever(n, setAddress) == n > Cardinality(setAddress) + 1
HasDuplicates(n, setAddress) == n > Cardinality(setAddress)

\* the foreach over the recipients: the first failure returns at once
RECURSIVE PreCheckLoop(_, _, _, _)
PreCheckLoop(rcps, k, setAddress, total) ==
    IF k > Len(rcps)
    THEN [status |-> "pass", setAddress |-> setAddress, total |-> total]
    ELSE IF ~validateAddress(rcps[k].address)
    THEN [status |-> "InvalidAddress", setAddress |-> setAddress, total |-> total]
    ELSE IF AmountInvalid(rcps[k].amount)
    THEN [status |-> "InvalidAmount",
          setAddress |-> setAddress \cup {rcps[k].address.s}, total |-> total]
    ELSE PreCheckLoop(rcps, k + 1, setAddress \cup {rcps[k].address.s},
                      total + rcps[k].amount)

PreCheckInputShort(rcps) ==
    IF Len(rcps) <= 1
    THEN [status |-> "OK", total |-> 0]
    ELSE LET r == PreCheckLoop(rcps, 1, {}, 0)
         IN IF r.status # "pass" THEN [status |-> r.status, total |-> r.total]
            ELSE IF HasDuplicates(Len(rcps), r.setAddress)
            THEN [status |-> "DuplicateAddress", total |-> r.total]
            ELSE [status |-> "pass", total |-> r.total]
PreCheckInputNoEntryCheck(rcps) ==
    LET r == PreCheckLoop(rcps, 1, {}, 0)
    IN IF r.status # "pass" THEN [status |-> r.status, total |-> r.total]
       ELSE IF HasDuplicates(Len(rcps), r.setAddress)
       THEN [status |-> "DuplicateAddress", total |-> r.total]
       ELSE [status |-> "pass", total |-> r.total]
PreCheckInput(rcps) ==
    IF rcps = <<>>
    THEN [status |-> "OK", total |-> 0]
    ELSE LET r == PreCheckLoop(rcps, 1, {}, 0)
         IN IF r.status # "pass" THEN [status |-> r.status, total |-> r.total]
            ELSE IF HasDuplicates(Len(rcps), r.setAddress)
            THEN [status |-> "DuplicateAddress", total |-> r.total]
            ELSE [status |-> "pass", total |-> r.total]

-----------------------------------------------------------------------------
(* sendCoins, lines 244-259: the optimistic balance pre-check *)

\* wallet->AvailableCoins : the confirmed spendable coins
AvailableCoins(cs) == {c \in CoinIds : cs[c] = "avail"}

\* BOOST_FOREACH(out, vCoins) nBalance += value
SumCoins(vCoins) == SetSum(vCoins)

BalanceCheck(total, nBalance) ==
    IF total > nBalance THEN [status |-> "AmountExceedsBalance", fee |-> 0]
    ELSE IF (total + nTransactionFee) > nBalance
    THEN [status |-> "AmountWithFeeExceedsBalance", fee |-> nTransactionFee]
    ELSE [status |-> "pass", fee |-> 0]

-----------------------------------------------------------------------------
(* sendCoins, lines 266-396: the outputs of each recipient *)

\* What the random source, the key agreement and the crypter may do for
\* one stealth recipient.  The first four fail before the narration is
\* looked at; "Encrypt" and "CipherTooLong" fail after its length check.
KeyAgreementFailures ==
    {"GenerateRandomSecret", "StealthSecret", "InvalidPubKey", "SecretToPublicKey"}
CryptoOutcomes ==
    KeyAgreementFailures \cup {"Encrypt", "CipherTooLong", "CipherEmpty", "ok"}

NoData == <<>>

\* CScript::SetDestination(CBitcoinAddress(sAddr).Get())
Destination(address) ==
    IF IsValidBitcoinAddress(address) THEN address.s ELSE "CNoDestination"

PayScript(dest) == [type |-> "pay", dest |-> dest, desc |-> NoData, data |-> NoData]

\* CScript() << OP_RETURN << ephem_pubkey [<< OP_RETURN << vchNarr]
StealthDataScript(address, vchNarr) ==
    [type |-> "ephem", dest |-> address.s, desc |-> NoData, data |-> vchNarr]

\* CScript() << OP_RETURN << vNDesc << OP_RETURN << vNarr, vNDesc = "np"
NarrationScriptNoTag(vNarr) ==
    [type |-> "narr", dest |-> "", desc |-> NoData, data |-> vNarr]
NarrationScript(vNarr) ==
    [type |-> "narr", dest |-> "", desc |-> <<110, 112>>, data |-> vNarr]

ChangeScript == [type |-> "change", dest |-> "", desc |-> NoData, data |-> NoData]

Out(script, nValue) == [script |-> script, nValue |-> nValue]

\* SecMsgCrypter::Encrypt : whole blocks of 16 bytes, unless the crypter
\* misbehaves as the outcome says
Encrypt(sNarr, outcome) ==
    IF outcome = "CipherEmpty" THEN <<>>
    ELSE IF outcome = "CipherTooLong" THEN [i \in 1..(MaxCipher + 1) |-> 0]
    ELSE [i \in 1..(16 * ((Len(sNarr) \div 16) + 1)) |->
             IF i <= Len(sNarr) THEN 255 - sNarr[i] ELSE 0]

\* CStealthAddress::SetEncoded
SetEncoded(address) == IsStealthAddress(address)

NarrationTooLong(q) == Len(toStdString(q)) > MaxNarration

\* the stealth branch of one recipient, lines 276-364, given that
\* SetEncoded succeeded.  pos0 is vecSend.size() on entry.
StealthNoCarrier(rcp, outcome, pos0) ==
    IF outcome \in KeyAgreementFailures
    THEN [status |-> "Aborted", outs |-> <<>>, narr |-> {}]
    ELSE LET pay == Out(PayScript("onetime:" \o rcp.address.s), rcp.amount)
         IN [status |-> "ok", outs |-> <<pay>>, narr |-> {}]
StealthRecipient(rcp, outcome, pos0) ==
    IF outcome \in KeyAgreementFailures
    THEN [status |-> "Aborted", outs |-> <<>>, narr |-> {}]
    ELSE LET pay == Out(PayScript("onetime:" \o rcp.address.s), rcp.amount)
             sNarr == toStdString(rcp.narration)
             vchNarr == Encrypt(sNarr, outcome)
         IN IF Len(rcp.narration) > 0
            THEN IF NarrationTooLong(rcp.narration)
                 THEN [status |-> "NarrationTooLong", outs |-> <<>>, narr |-> {}]
                 ELSE IF outcome = "Encrypt"
                 THEN [status |-> "Aborted", outs |-> <<>>, narr |-> {}]
                 ELSE IF Len(vchNarr) > MaxCipher
                 THEN [status |-> "Aborted", outs |-> <<>>, narr |-> {}]
                 ELSE [status |-> "ok",
                       outs |-> <<pay, Out(StealthDataScript(rcp.address,
                                    IF Len(vchNarr) > 0 THEN vchNarr ELSE NoData), 0)>>,
                       narr |-> {<<pos0, sNarr>>}]
            ELSE [status |-> "ok",
                  outs |-> <<pay, Out(StealthDataScript(rcp.address, NoData), 0)>>,
                  narr |-> {}]

\* the normal branch of one recipient, lines 368-395
StandardAlwaysNarrated(rcp, pos0) ==
    LET pay == Out(PayScript(Destination(rcp.address)), rcp.amount)
        sNarr == toStdString(rcp.narration)
    IN IF NarrationTooLong(rcp.narration)
       THEN [status |-> "NarrationTooLong", outs |-> <<>>, narr |-> {}]
       ELSE [status |-> "ok", outs |-> <<pay, Out(NarrationScript(sNarr), 0)>>,
             narr |-> {}]
StandardRecipient(rcp, pos0) ==
    LET pay == Out(PayScript(Destination(rcp.address)), rcp.amount)
        sNarr == toStdString(rcp.narration)
    IN IF Len(rcp.narration) > 0
       THEN IF NarrationTooLong(rcp.narration)
            THEN [status |-> "NarrationTooLong", outs |-> <<>>, narr |-> {}]
            ELSE [status |-> "ok", outs |-> <<pay, Out(NarrationScript(sNarr), 0)>>,
                  narr |-> {}]
       ELSE [status |-> "ok", outs |-> <<pay>>, narr |-> {}]

\* whether the recipient takes the stealth branch
IsStealthRecipient(rcp) == rcp.typeInd = AT_Stealth /\ SetEncoded(rcp.address)

\* the foreach of lines 270-396: crypto[k] is what the crypto does for the
\* k-th recipient; the first failure returns at once
RECURSIVE BuildLoop(_, _, _, _, _)
BuildLoop(rcps, crypto, k, vecSend, mapStealthNarr) ==
    IF k > Len(rcps)
    THEN [status |-> "ok", vecSend |-> vecSend, mapStealthNarr |-> mapStealthNarr]
    ELSE LET r == IF IsStealthRecipient(rcps[k])
                  THEN StealthRecipient(rcps[k], crypto[k], Len(vecSend))
                  ELSE StandardRecipient(rcps[k], Len(vecSend))
         IN IF r.status # "ok"
            THEN [status |-> r.status, vecSend |-> <<>>, mapStealthNarr |-> {}]
            ELSE BuildLoop(rcps, crypto, k + 1, vecSend \o r.outs,
                           mapStealthNarr \cup r.narr)

BuildOutputs(rcps, crypto) == BuildLoop(rcps, crypto, 1, <<>>, {})

\* the recipients the crypto is run for
StealthIndices(rcps) == {k \in 1..Len(rcps) : IsStealthRecipient(rcps[k])}

-----------------------------------------------------------------------------
(* wallet->CreateTransaction and the key reservation, as sendCoins uses them *)

\* the fee construction may come to: the assumed fee, or more
FeeChoices == {nTransactionFee, 2 * nTransactionFee}

\* Change is never inserted straight before a zero-value output, so a
\* data-carrier stays behind its payment: from the drawn position raw
\* (0-based, 0..Len(vout)) the wallet steps back over zero-value outputs.
RECURSIVE ChangePosition(_, _)
ChangePosition(vout, raw) ==
    IF raw > 0 /\ raw < Len(vout) /\ vout[raw + 1].nValue = 0
    THEN ChangePosition(vout, raw - 1)
    ELSE raw

OutputsValue(vecSend) == SeqSum([i \in 1..Len(vecSend) |-> vecSend[i].nValue])

\* Every result CreateTransaction may give for these outputs and coins:
\* success needs selected coins worth the outputs and the fee; it may
\* fail for want of funds or for any other reason (signing, a locked
\* wallet), with or without a change key reserved by then.
CreateTransaction(vecSend, vCoins) ==
    LET nValue == OutputsValue(vecSend)
        built(fee, sel, raw) ==
            LET nChange == SetSum(sel) - nValue - fee
                pos == ChangePosition(vecSend, raw)
            IN IF nChange > 0
               THEN [fCreated |-> TRUE, nFeeRet |-> fee, vin |-> sel,
                     vout |-> InsertAt(vecSend, pos, Out(ChangeScript, nChange)),
                     nChangePos |-> pos, fReserved |-> TRUE]
               ELSE [fCreated |-> TRUE, nFeeRet |-> fee, vin |-> sel,
                     vout |-> vecSend, nChangePos |-> -1, fReserved |-> FALSE]
        success ==
            UNION { UNION { { built(fee, sel, raw) : raw \in 0..Len(vecSend) } :
                            sel \in {x \in SUBSET vCoins : SetSum(x) >= nValue + fee} } :
                    fee \in FeeChoices }
        failure ==
            { [fCreated |-> FALSE, nFeeRet |-> fee, vin |-> {}, vout |-> vecSend,
               nChangePos |-> -1, fReserved |-> b] :
              fee \in FeeChoices, b \in BOOLEAN }
    IN success \cup failure

-----------------------------------------------------------------------------
(* sendCoins, lines 405-419: the narrations attached to the transaction *)

\* the output index a narration recorded at pos ends at
ShiftedPosNoShift(pos, nChangePos) == pos
ShiftedPos(pos, nChangePos) ==
    IF nChangePos > -1 /\ pos >= nChangePos THEN pos + 1 ELSE pos

\* snprintf(key, sizeof(key), "n_%u", pos)
NarrationKey(pos) == "n_" \o ToString(pos)

\* wtx.mapValue[key] = it->second, in the ascending order of the map:
\* a later entry overwrites an earlier one under the same key
AttachNarrationsStrict(mapStealthNarr, nChangePos) ==
    LET keyOf(e) == NarrationKey(IF nChangePos > -1 /\ e[1] > nChangePos
                                 THEN e[1] + 1 ELSE e[1])
        keys == {keyOf(e) : e \in mapStealthNarr}
        last(k) == CHOOSE e \in mapStealthNarr :
                      /\ keyOf(e) = k
                      /\ \A f \in mapStealthNarr : keyOf(f) = k => f[1] <= e[1]
    IN [k \in keys |-> last(k)[2]]
AttachNarrations(mapStealthNarr, nChangePos) ==
    LET keyOf(e) == NarrationKey(ShiftedPos(e[1], nChangePos))
        keys == {keyOf(e) : e \in mapStealthNarr}
        last(k) == CHOOSE e \in mapStealthNarr :
                      /\ keyOf(e) = k
                      /\ \A f \in mapStealthNarr : keyOf(f) = k => f[1] <= e[1]
    IN [k \in keys |-> last(k)[2]]

\* lines 422-433: what follows construction
AfterCreateUnchecked(fCreated, total, nFeeRequired, nBalance) ==
    [status |-> "pass", fee |-> 0]
AfterCreate(fCreated, total, nFeeRequired, nBalance) ==
    IF ~fCreated
    THEN IF (total + nFeeRequired) > nBalance
         THEN [status |-> "AmountWithFeeExceedsBalance", fee |-> nFeeRequired]
         ELSE [status |-> "TransactionCreationFailed", fee |-> 0]
    ELSE [status |-> "pass", fee |-> 0]

\* line 430: what follows the answer of uiInterface.ThreadSafeAskFee
AfterAskFeeIgnored(approved) == "commit"
AfterAskFee(approved) == IF ~approved THEN "Aborted" ELSE "commit"

\* line 435: what follows the answer of wallet->CommitTransaction
AfterCommitIgnored(fCommitted) == "addrbook"
AfterCommit(fCommitted) ==
    IF ~fCommitted THEN "TransactionCommitFailed" ELSE "addrbook"

\* wtx.GetHash().GetHex()
GetHex(wtx) == <<wtx>>
NoHex == <<>>

-----------------------------------------------------------------------------
(* The locals of one sendCoins call *)

NullTx == [vin |-> {}, vout |-> <<>>, mapValue |-> <<>>]
NoRet == [status |-> "none", fee |-> 0, hex |-> NoHex]
ZeroCalls == [AvailableCoins |-> 0, Lock |-> 0, CreateTransaction |-> 0,
              AskFee |-> 0, CommitTransaction |-> 0, AddressBook |-> 0]

InitLocals(req) ==
    [pc |-> "idle", recipients |-> req, total |-> 0, nBalance |-> 0,
     vecSend |-> <<>>, mapStealthNarr |-> {}, wtx |-> NullTx,
     fCreated |-> FALSE, fCommitted |-> FALSE, nFeeRequired |-> 0,
     nChangePos |-> -1, idx |-> 0,
     ret |-> NoRet, calls |-> ZeroCalls, nReturns |-> 0, declined |-> FALSE,
     pre |-> [mapWallet |-> {}, mapAddressBook |-> <<>>]]

\* the stage of the pipeline a position of the call belongs to
StageOf(pc) ==
    CASE pc = "idle" -> "NotStarted"
      [] pc = "validate" -> "Validating"
      [] pc = "select" -> "Selecting"
      [] pc \in {"lock_main", "lock_wallet", "build", "create"} -> "Building"
      [] pc = "askfee" -> "AwaitingFeeConfirmation"
      [] pc \in {"commit", "addrbook"} -> "Committing"
      [] pc = "done" -> "Returned"

\* return: the locals die, the result stays
Returned(l, status, fee, hex) ==
    [l EXCEPT !.pc = "done", !.ret = [status |-> status, fee |-> fee, hex |-> hex],
              !.nReturns = @ + 1,
              !.vecSend = <<>>, !.mapStealthNarr = {}, !.wtx = NullTx, !.idx = 0]

\* leaving the scope of LOCK2 and of keyChange: the locks the thread holds
\* are released and a reserved key that was not kept goes back to the pool
LeaveScopeKeepsKey(t) ==
    /\ cs_main' = IF cs_main = t THEN Free ELSE cs_main
    /\ cs_wallet' = IF cs_wallet = t THEN Free ELSE cs_wallet
    /\ reservedKeys' = reservedKeys
LeaveScope(t) ==
    /\ cs_main' = IF cs_main = t THEN Free ELSE cs_main
    /\ cs_wallet' = IF cs_wallet = t THEN Free ELSE cs_wallet
    /\ reservedKeys' = reservedKeys \ {t}

-----------------------------------------------------------------------------
(* The steps of sendCoins *)

\* the call itself; a finished call may be made again with the same request
Call(t) ==
    /\ snd[t].pc \in {"idle", "done"}
    /\ snd' = [snd EXCEPT ![t] =
                 [InitLocals(snd[t].recipients) EXCEPT
                    !.pc = "validate",
                    !.pre = [mapWallet |-> mapWallet,
                             mapAddressBook |-> mapAddressBook]]]
    /\ UNCHANGED <<cs_main, cs_wallet, wallet, gui>>

\* lines 218-242
Validate(t) ==
    LET l == snd[t]
        r == PreCheckInput(l.recipients)
    IN /\ l.pc = "validate"
       /\ snd' = [snd EXCEPT ![t] =
                    IF r.status = "pass"
                    THEN [l EXCEPT !.pc = "select", !.total = r.total]
                    ELSE Returned([l EXCEPT !.total = r.total], r.status, 0, NoHex)]
       /\ UNCHANGED <<cs_main, cs_wallet, wallet, gui>>

\* lines 244-259
Select(t) ==
    LET l == snd[t]
        nBalance == SumCoins(AvailableCoins(coinState))
        r == BalanceCheck(l.total, nBalance)
        l1 == [l EXCEPT !.nBalance = nBalance, !.calls.AvailableCoins = @ + 1]
    IN /\ l.pc = "select"
       /\ snd' = [snd EXCEPT ![t] =
                    IF r.status = "pass"
                    THEN [l1 EXCEPT !.pc = "lock_main"]
                    ELSE Returned(l1, r.status, r.fee, NoHex)]
       /\ UNCHANGED <<cs_main, cs_wallet, wallet, gui>>

\* line 264, LOCK2: cs_main first ...
LockMainBarging(t) ==
    /\ snd[t].pc = "lock_main"
    /\ cs_main' = t
    /\ snd' = [snd EXCEPT ![t].pc = "lock_wallet", ![t].calls.Lock = @ + 1]
    /\ UNCHANGED <<cs_wallet, wallet, gui>>
LockMain(t) ==
    /\ snd[t].pc = "lock_main"
    /\ cs_main = Free
    /\ cs_main' = t
    /\ snd' = [snd EXCEPT ![t].pc = "lock_wallet", ![t].calls.Lock = @ + 1]
    /\ UNCHANGED <<cs_wallet, wallet, gui>>

\* ... then wallet->cs_wallet
LockWallet(t) ==
    /\ snd[t].pc = "lock_wallet"
    /\ cs_wallet = Free
    /\ cs_wallet' = t
    /\ snd' = [snd EXCEPT ![t].pc = "build", ![t].calls.Lock = @ + 1]
    /\ UNCHANGED <<cs_main, wallet, gui>>

\* lines 266-396
Build(t) ==
    LET l == snd[t]
    IN /\ l.pc = "build"
       /\ \E crypto \in [StealthIndices(l.recipients) -> CryptoOutcomes] :
            LET r == BuildOutputs(l.recipients, crypto)
            IN IF r.status = "ok"
               THEN /\ snd' = [snd EXCEPT ![t] =
                                 [l EXCEPT !.pc = "create", !.vecSend = r.vecSend,
                                           !.mapStealthNarr = r.mapStealthNarr]]
                    /\ UNCHANGED <<cs_main, cs_wallet, wallet, gui>>
               ELSE /\ snd' = [snd EXCEPT ![t] = Returned(l, r.status, 0, NoHex)]
                    /\ LeaveScope(t)
                    /\ UNCHANGED <<coinState, mapWallet, mapAddressBook, nKeysUsed, gui>>

\* lines 399-429
Create(t) ==
    LET l == snd[t]
    IN /\ l.pc = "create"
       /\ \E c \in CreateTransaction(l.vecSend, AvailableCoins(coinState)) :
            LET wtx == [vin |-> c.vin, vout |-> c.vout,
                        mapValue |-> AttachNarrations(l.mapStealthNarr, c.nChangePos)]
                r == AfterCreate(c.fCreated, l.total, c.nFeeRet, l.nBalance)
                l1 == [l EXCEPT !.wtx = wtx, !.fCreated = c.fCreated,
                                !.nFeeRequired = c.nFeeRet, !.nChangePos = c.nChangePos,
                                !.calls.CreateTransaction = @ + 1]
            IN IF r.status = "pass"
               THEN /\ snd' = [snd EXCEPT ![t] = [l1 EXCEPT !.pc = "askfee"]]
                    /\ reservedKeys' = IF c.fReserved THEN reservedKeys \cup {t}
                                       ELSE reservedKeys
                    /\ UNCHANGED <<cs_main, cs_wallet, coinState, mapWallet,
                                   mapAddressBook, nKeysUsed, gui>>
               ELSE /\ snd' = [snd EXCEPT ![t] = Returned(l1, r.status, r.fee, NoHex)]
                    /\ LeaveScope(t)
                    /\ UNCHANGED <<coinState, mapWallet, mapAddressBook, nKeysUsed, gui>>

\* lines 430-433
AskFee(t) ==
    LET l == snd[t]
    IN /\ l.pc = "askfee"
       /\ \E approved \in BOOLEAN :
            LET l1 == [l EXCEPT !.calls.AskFee = @ + 1, !.declined = ~approved]
            IN IF AfterAskFee(approved) = "commit"
               THEN /\ snd' = [snd EXCEPT ![t] = [l1 EXCEPT !.pc = "commit"]]
                    /\ UNCHANGED <<cs_main, cs_wallet, wallet, gui>>
               ELSE /\ snd' = [snd EXCEPT ![t] = Returned(l1, "Aborted", 0, NoHex)]
                    /\ LeaveScope(t)
                    /\ UNCHANGED <<coinState, mapWallet, mapAddressBook, nKeysUsed, gui>>

\* lines 435-441
Commit(t) ==
    LET l == snd[t]
        l1 == [l EXCEPT !.calls.CommitTransaction = @ + 1]
    IN /\ l.pc = "commit"
       /\ \E fCommitted \in BOOLEAN :
            LET l2 == [l1 EXCEPT !.fCommitted = fCommitted] IN
            /\ IF fCommitted
               THEN /\ mapWallet' = mapWallet \cup {l.wtx}
                    /\ coinState' = [c \in CoinIds |->
                                       IF c \in l.wtx.vin THEN "spent" ELSE coinState[c]]
                    /\ nKeysUsed' = IF t \in reservedKeys THEN nKeysUsed + 1
                                    ELSE nKeysUsed
               ELSE UNCHANGED <<coinState, mapWallet, nKeysUsed>>
            /\ LeaveScope(t)
            /\ UNCHANGED <<mapAddressBook, gui>>
            /\ IF AfterCommit(fCommitted) = "addrbook"
               THEN snd' = [snd EXCEPT ![t] =
                              [l2 EXCEPT !.pc = "addrbook", !.idx = 1,
                                         !.ret.hex = GetHex(l.wtx)]]
               ELSE snd' = [snd EXCEPT ![t] =
                              Returned(l2, "TransactionCommitFailed", 0, NoHex)]

\* lines 452-464: the address-book entry of one recipient after the update
UpdateAddressBook(book, rcp) ==
    IF rcp.typeInd = AT_Stealth
    THEN IF SetEncoded(rcp.address)
         THEN [book EXCEPT ![rcp.address.s] = rcp.label]
         ELSE book
    ELSE LET dest == Destination(rcp.address)
         IN IF book[dest] = NoLabel \/ book[dest] # rcp.label
            THEN [book EXCEPT ![dest] = rcp.label]
            ELSE book

\* lines 444-468: one turn of the foreach, under LOCK(wallet->cs_wallet),
\* and the return after the last
AddressBook(t) ==
    LET l == snd[t]
        l1 == [l EXCEPT !.calls.AddressBook = @ + 1]
    IN /\ l.pc = "addrbook"
       /\ cs_wallet = Free
       /\ mapAddressBook' = UpdateAddressBook(mapAddressBook, l.recipients[l.idx])
       /\ snd' = [snd EXCEPT ![t] =
                    IF l.idx = Len(l.recipients)
                    THEN Returned(l1, "OK", 0, l.ret.hex)
                    ELSE [l1 EXCEPT !.idx = l.idx + 1]]
       /\ UNCHANGED <<cs_main, cs_wallet, coinState, mapWallet, reservedKeys,
                      nKeysUsed, gui>>

SendCoins(t) ==
    \/ Call(t)
    \/ Validate(t)
    \/ Select(t)
    \/ LockMain(t)
    \/ LockWallet(t)
    \/ Build(t)
    \/ Create(t)
    \/ AskFee(t)
    \/ Commit(t)
    \/ AddressBook(t)

-----------------------------------------------------------------------------
(* The rest of the node: coins arrive and are spent under both locks *)

ReceiveCoin ==
    /\ cs_main = Free /\ cs_wallet = Free
    /\ \E c \in CoinIds :
         /\ coinState[c] = "unseen"
         /\ coinState' = [coinState EXCEPT ![c] = "avail"]
    /\ UNCHANGED <<cs_main, cs_wallet, mapWallet, mapAddressBook, reservedKeys,
                   nKeysUsed, snd, gui>>

ExternalSpend ==
    /\ cs_main = Free /\ cs_wallet = Free
    /\ \E c \in CoinIds :
         /\ coinState[c] = "avail"
         /\ coinState' = [coinState EXCEPT ![c] = "spent"]
    /\ UNCHANGED <<cs_main, cs_wallet, mapWallet, mapAddressBook, reservedKeys,
                   nKeysUsed, snd, gui>>

-----------------------------------------------------------------------------
(* pollBalanceChanged, lines 118-139, run by the thread of the poll timer *)

\* the chain grows to this height at most
MaxHeight == 2

Poller == "poll"
Reader == "r1"
Others == {Poller, Reader}
IdleThread == [pc |-> "idle", fn |-> "none", last |-> "none"]

\* TRY_LOCK(cs, name): the section is taken when it is free, and the
\* thread never waits for it
TRY_LOCK_Always(cs, t) == [got |-> TRUE, cs |-> t]
TRY_LOCK(cs, t) == [got |-> cs = Free, cs |-> IF cs = Free THEN t ELSE cs]

\* wallet->GetUnlockedBalance
getUnlockedBalance == SumCoins(AvailableCoins(coinState))

\* wallet->GetLockedBalance, GetStakeAmount, GetUnconfirmedBalance and
\* GetImmatureBalance
getLockedBalance == balances.locked
getStakeAmount == balances.stake
getUnconfirmedBalance == balances.unconfirmed
getImmatureBalance == balances.immature

\* cachedLockedBalance is not in the constructor's initialiser list and no
\* line assigns it: it holds what the memory held, a value that is fixed
\* but unknown until line 159 reads it.  The variable is the set of the
\* values the member may hold: all of them until it is read, one from then
MemoryValues == {0, 5}
NoSignal == <<>>

\* lines 141-168.  content is what the memory of cachedLockedBalance holds;
\* line 159 reads it only when cachedBalance equals newBalance.  (The
\* watch-only sums are passed on in the signal and compared with nothing.)
checkBalanceChanged(content) ==
    LET newBalance == getUnlockedBalance
        newLockedBalance == getLockedBalance
        newStake == getStakeAmount
        newUnconfirmedBalance == getUnconfirmedBalance
        newImmatureBalance == getImmatureBalance
        lockedRead == cachedBalance = newBalance
    IN /\ cachedLockedBalance' = IF lockedRead THEN {content} ELSE cachedLockedBalance
       /\ IF \/ cachedBalance # newBalance
             \/ content # newLockedBalance
             \/ cachedStake # newStake
             \/ cachedUnconfirmedBalance # newUnconfirmedBalance
             \/ cachedImmatureBalance # newImmatureBalance
          THEN /\ cachedBalance' = newBalance
               /\ cachedStake' = newStake
               /\ cachedUnconfirmedBalance' = newUnconfirmedBalance
               /\ cachedImmatureBalance' = newImmatureBalance
               /\ balanceChanged' = <<newBalance, newLockedBalance, newStake,
                                      newUnconfirmedBalance, newImmatureBalance>>
          ELSE /\ UNCHANGED <<cachedBalance, cachedStake,
                              cachedUnconfirmedBalance, cachedImmatureBalance>>
               /\ balanceChanged' = NoSignal
       /\ lastRead' = <<newBalance, newLockedBalance, newStake,
                        newUnconfirmedBalance, newImmatureBalance>>

\* the timer fires
PollCall(p) ==
    /\ thr[p].pc = "idle"
    /\ thr' = [thr EXCEPT ![p] = [pc |-> "try_main", fn |-> "pollBalanceChanged",
                                  last |-> "none"]]
    /\ UNCHANGED <<cs_main, cs_wallet, wallet, snd, nBestHeight, cachedNumBlocks,
                   cachedBalance, other>>

\* lines 123-125
PollTryMain(p) ==
    LET lockMain == TRY_LOCK(cs_main, p)
    IN /\ thr[p].pc = "try_main"
       /\ cs_main' = lockMain.cs
       /\ thr' = [thr EXCEPT ![p] =
                    IF ~lockMain.got
                    THEN [pc |-> "idle", fn |-> "none", last |-> "skipped"]
                    ELSE [@ EXCEPT !.pc = "try_wallet"]]
       /\ UNCHANGED <<cs_wallet, wallet, snd, nBestHeight, cachedNumBlocks,
                      cachedBalance, other>>

\* lines 126-128: the return releases cs_main
PollTryWallet(p) ==
    LET lockWallet == TRY_LOCK(cs_wallet, p)
    IN /\ thr[p].pc = "try_wallet"
       /\ IF ~lockWallet.got
          THEN /\ cs_main' = Free
               /\ UNCHANGED cs_wallet
               /\ thr' = [thr EXCEPT ![p] =
                            [pc |-> "idle", fn |-> "none", last |-> "skipped"]]
          ELSE /\ cs_wallet' = lockWallet.cs
               /\ UNCHANGED cs_main
               /\ thr' = [thr EXCEPT ![p].pc = "refresh"]
       /\ UNCHANGED <<wallet, snd, nBestHeight, cachedNumBlocks, cachedBalance, other>>

\* lines 130-139
PollRefresh(p) ==
    /\ thr[p].pc = "refresh"
    /\ IF nBestHeight # cachedNumBlocks
       THEN /\ cachedNumBlocks' = nBestHeight
            /\ \E content \in cachedLockedBalance : checkBalanceChanged(content)
       ELSE UNCHANGED <<cachedNumBlocks, cachedBalance, cacheVars>>
    /\ cs_main' = Free
    /\ cs_wallet' = Free
    /\ thr' = [thr EXCEPT ![p] = [pc |-> "idle", fn |-> "none", last |-> "polled"]]
    /\ UNCHANGED <<wallet, snd, nBestHeight, balances, unlockVars>>

pollBalanceChanged(p) ==
    \/ PollCall(p)
    \/ PollTryMain(p)
    \/ PollTryWallet(p)
    \/ PollRefresh(p)

-----------------------------------------------------------------------------
(* The other entry points that take the critical sections *)

\* LOCK2(cs_main, wallet->cs_wallet): getOutputs (line 665), listCoins
\* (line 705); LOCK(wallet->cs_wallet): getNumTransactions (line 104),
\* changePassphrase (line 539)
Lock2Functions == {"getOutputs", "listCoins"}
LockFunctions == {"getNumTransactions", "changePassphrase"}

\* the first section the function asks for
FirstLock(fn) == IF fn \in Lock2Functions THEN "lock_main" ELSE "lock_wallet"

OpCall(o) ==
    /\ thr[o].pc = "idle"
    /\ \E fn \in Lock2Functions \cup LockFunctions :
         thr' = [thr EXCEPT ![o] = [pc |-> FirstLock(fn), fn |-> fn, last |-> "none"]]
    /\ UNCHANGED <<cs_main, cs_wallet, wallet, snd, nBestHeight, cachedNumBlocks,
                   cachedBalance, other>>

OpLockMain(o) ==
    /\ thr[o].pc = "lock_main"
    /\ cs_main = Free
    /\ cs_main' = o
    /\ thr' = [thr EXCEPT ![o].pc = "lock_wallet"]
    /\ UNCHANGED <<cs_wallet, wallet, snd, nBestHeight, cachedNumBlocks,
                   cachedBalance, other>>

OpLockWallet(o) ==
    /\ thr[o].pc = "lock_wallet"
    /\ cs_wallet = Free
    /\ cs_wallet' = o
    /\ thr' = [thr EXCEPT ![o].pc = "body"]
    /\ UNCHANGED <<cs_main, wallet, snd, nBestHeight, cachedNumBlocks,
                   cachedBalance, other>>

\* the body reads the wallet; the return leaves the sections
OpReturnHolding(o) ==
    /\ thr[o].pc = "body"
    /\ cs_wallet' = Free
    /\ thr' = [thr EXCEPT ![o] = IdleThread]
    /\ UNCHANGED <<cs_main, wallet, snd, nBestHeight, cachedNumBlocks, cachedBalance, other>>
OpReturn(o) ==
    /\ thr[o].pc = "body"
    /\ cs_main' = IF cs_main = o THEN Free ELSE cs_main
    /\ cs_wallet' = Free
    /\ thr' = [thr EXCEPT ![o] = IdleThread]
    /\ UNCHANGED <<wallet, snd, nBestHeight, cachedNumBlocks, cachedBalance, other>>

WalletOp(o) ==
    \/ OpCall(o)
    \/ OpLockMain(o)
    \/ OpLockWallet(o)
    \/ OpReturn(o)

\* a block is connected, under cs_main
NewBlock ==
    /\ cs_main = Free
    /\ nBestHeight < MaxHeight
    /\ nBestHeight' = nBestHeight + 1
    /\ UNCHANGED <<cs_main, cs_wallet, wallet, snd, cachedNumBlocks,
                   cachedBalance, thr, other>>

\* the sums a wallet can have beside its spendable coins
NothingElse == [locked |-> 0, stake |-> 0, unconfirmed |-> 0, immature |-> 0]
BalanceVectors ==
    {NothingElse,
     [locked |-> 5, stake |-> 0, unconfirmed |-> 0, immature |-> 0],
     [locked |-> 5, stake |-> 3, unconfirmed |-> 0, immature |-> 0],
     [locked |-> 0, stake |-> 0, unconfirmed |-> 2, immature |-> 1]}

\* coins are locked, staked, received or matured, under cs_wallet
WalletEvent ==
    /\ cs_wallet = Free
    /\ balances' \in BalanceVectors \ {balances}
    /\ UNCHANGED <<cs_main, cs_wallet, wallet, snd, nBestHeight, cachedNumBlocks,
                   cachedBalance, thr, cacheVars, unlockVars>>

-----------------------------------------------------------------------------
(* Unlocking the wallet for one operation: requestUnlock and UnlockContext *)

MaxContexts == 3
ContextIds == 1..MaxContexts

NoContext ==
    [life |-> "none", valid |-> FALSE, relock |-> FALSE, root |-> 0,
     moved |-> FALSE,
     call |-> [status |-> "Unencrypted", stakingOnly |-> FALSE, unlocked |-> FALSE]]

\* CWallet::Lock and CWallet::Unlock with the right passphrase
WalletLock(status) == IF status = "Unencrypted" THEN status ELSE "Locked"
WalletUnlock(status) == IF status = "Locked" THEN "Unlocked" ELSE status

\* lines 491-505
getEncryptionStatus == encryptionStatus

\* lines 520-532, with a passphrase that is right
setWalletLocked(locked, status) ==
    IF locked THEN WalletLock(status) ELSE WalletUnlock(status)

\* the slot of requireUnlock: the user gives the passphrase or cancels
requireUnlock(status, granted) ==
    IF granted THEN setWalletLocked(FALSE, status) ELSE status

\* lines 650-655, the relock duty left with both objects
CopyFromKeepsRelock(dst, src) ==
    /\ dst # src
    /\ context[dst].life = "none"
    /\ context[src].life = "live"
    /\ context' = [context EXCEPT ![dst] = context[src]]
    /\ UNCHANGED <<cs_main, cs_wallet, wallet, snd, nBestHeight, cachedNumBlocks,
                   cachedBalance, thr, balances, cacheVars, encryptionStatus,
                   fWalletUnlockStakingOnly, relocked>>

\* lines 614-633 and the constructor of lines 635-640: object c is the
\* UnlockContext returned.  root, moved and call record for the claims
\* which call made the object, whether it was the source of a CopyFrom,
\* and how the call found the wallet
requestUnlock(c, granted) ==
    LET entry == getEncryptionStatus
        stakingLock == entry # "Locked" /\ fWalletUnlockStakingOnly
        asked == IF stakingLock THEN setWalletLocked(TRUE, entry) ELSE entry
        was_locked == asked = "Locked"
        answered == IF was_locked THEN requireUnlock(asked, granted) ELSE asked
        valid == answered # "Locked"
    IN /\ context[c].life = "none"
       /\ \A d \in ContextIds : d < c => context[d].life # "none"
       /\ encryptionStatus' = answered
       /\ context' = [context EXCEPT ![c] =
             [life |-> "live", valid |-> valid,
              relock |-> was_locked /\ ~fWalletUnlockStakingOnly,
              root |-> c, moved |-> FALSE,
              call |-> [status |-> entry,
                        stakingOnly |-> fWalletUnlockStakingOnly,
                        unlocked |-> was_locked /\ valid]]]
       /\ UNCHANGED <<cs_main, cs_wallet, wallet, snd, nBestHeight,
                      cachedNumBlocks, cachedBalance, thr, balances, cacheVars,
                      fWalletUnlockStakingOnly, relocked>>

\* lines 642-648
DestroyContext(c) ==
    /\ context[c].life = "live"
    /\ context' = [context EXCEPT ![c].life = "gone"]
    /\ IF context[c].valid /\ context[c].relock
       THEN /\ encryptionStatus' = setWalletLocked(TRUE, encryptionStatus)
            /\ relocked' = [relocked EXCEPT ![context[c].root] = @ + 1]
       ELSE UNCHANGED <<encryptionStatus, relocked>>
    /\ UNCHANGED <<cs_main, cs_wallet, wallet, snd, nBestHeight, cachedNumBlocks,
                   cachedBalance, thr, balances, cacheVars,
                   fWalletUnlockStakingOnly>>

\* lines 650-655: object dst, under construction, takes the context of src
CopyFrom(dst, src) ==
    /\ dst # src
    /\ context[dst].life = "none"
    /\ \A d \in ContextIds : d < dst => context[d].life # "none"
    /\ context[src].life = "live"
    /\ context' = [context EXCEPT ![dst] = context[src],
                                  ![src].relock = FALSE,
                                  ![src].moved = TRUE]
    /\ UNCHANGED <<cs_main, cs_wallet, wallet, snd, nBestHeight, cachedNumBlocks,
                   cachedBalance, thr, balances, cacheVars, encryptionStatus,
                   fWalletUnlockStakingOnly, relocked>>

\* the user locks the wallet, or unlocks it; no line of the file writes
\* fWalletUnlockStakingOnly, which stays as the process started with it
UserLock ==
    /\ encryptionStatus = "Unlocked"
    /\ encryptionStatus' = setWalletLocked(TRUE, encryptionStatus)
    /\ UNCHANGED <<cs_main, cs_wallet, wallet, snd, nBestHeight, cachedNumBlocks,
                   cachedBalance, thr, balances, cacheVars,
                   fWalletUnlockStakingOnly, context, relocked>>

UserUnlock ==
    /\ encryptionStatus = "Locked"
    /\ encryptionStatus' = setWalletLocked(FALSE, encryptionStatus)
    /\ UNCHANGED <<cs_main, cs_wallet, wallet, snd, nBestHeight, cachedNumBlocks,
                   cachedBalance, thr, balances, cacheVars,
                   fWalletUnlockStakingOnly, context, relocked>>

\* no wallet encryption, no UnlockContext
NoUnlocking ==
    /\ encryptionStatus = "Unencrypted"
    /\ fWalletUnlockStakingOnly = FALSE
    /\ context = [c \in ContextIds |-> NoContext]
    /\ relocked = [c \in ContextIds |-> 0]

-----------------------------------------------------------------------------
(* The specification: one thread sends one request, again and again *)

BookKeys == AddrNames \cup {"CNoDestination"}

InitWallet ==
    /\ cs_main = Free
    /\ cs_wallet = Free
    /\ coinState \in [CoinIds -> {"unseen", "avail"}]
    /\ mapWallet = {}
    /\ mapAddressBook = [a \in BookKeys |-> IF a = "A" THEN "old" ELSE NoLabel]
    /\ reservedKeys = {}
    /\ nKeysUsed = 0
    /\ nBestHeight = 0
    /\ cachedNumBlocks = 0
    /\ cachedBalance = 0
    /\ thr = [o \in Others |-> IdleThread]
    /\ cachedLockedBalance = MemoryValues
    /\ cachedStake = 0
    /\ cachedUnconfirmedBalance = 0
    /\ cachedImmatureBalance = 0
    /\ balanceChanged = NoSignal
    /\ lastRead = NoSignal

Init ==
    /\ InitWallet
    /\ balances = NothingElse
    /\ NoUnlocking
    /\ \E req \in Requests :
         snd = [t \in Senders |-> InitLocals(IF t = "s1" THEN req ELSE <<>>)]

Next ==
    \/ SendCoins("s1")
    \/ ReceiveCoin
    \/ ExternalSpend

Spec == Init /\ [][Next]_vars

-----------------------------------------------------------------------------
(* The specification of the threads together: two threads send, the timer
   polls, a third thread reads the wallet, coins are spent elsewhere *)

\* one standard recipient, narrated, amount 500
NarratedToB500 ==
    <<[address |-> AddrB, amount |-> 500, narration |-> Narr24,
       typeInd |-> AT_Normal, label |-> "shop"]>>

\* one standard recipient, no narration, amount 500
PlainToA500 ==
    <<[address |-> AddrA, amount |-> 500, narration |-> <<>>,
       typeInd |-> AT_Normal, label |-> "shop"]>>

\* each thread makes its call once; the wallet has the one coin c1
InitConc ==
    /\ InitWallet
    /\ balances = NothingElse
    /\ NoUnlocking
    /\ coinState = [c \in CoinIds |-> IF c = "c1" THEN "avail" ELSE "unseen"]
    /\ snd = [t \in Senders |->
                InitLocals(IF t = "s1" THEN PlainToA500 ELSE NarratedToB500)]

NextConc ==
    \/ \E t \in Senders : snd[t].pc # "done" /\ SendCoins(t)
    \/ pollBalanceChanged(Poller)
    \/ WalletOp(Reader)
    \/ ExternalSpend

SpecConc == InitConc /\ [][NextConc]_vars

-----------------------------------------------------------------------------
(* The specification of the poll: one thread sends, again and again, the
   timer polls, blocks and coins come in *)

InitPoll ==
    /\ InitWallet
    /\ balances = NothingElse
    /\ NoUnlocking
    /\ snd = [t \in Senders |-> InitLocals(IF t = "s1" THEN PlainToA500 ELSE <<>>)]

NextPoll ==
    \/ SendCoins("s1")
    \/ pollBalanceChanged(Poller)
    \/ NewBlock
    \/ ReceiveCoin
    \/ ExternalSpend

SpecPoll == InitPoll /\ [][NextPoll]_vars

-----------------------------------------------------------------------------
(* The specification of the balance cache: the timer polls, blocks come in,
   and the wallet's sums change; nothing is sent *)

InitBalance ==
    /\ InitWallet
    /\ NoUnlocking
    /\ balances \in BalanceVectors
    /\ snd = [t \in Senders |-> InitLocals(<<>>)]

NextBalance ==
    \/ pollBalanceChanged(Poller)
    \/ NewBlock
    \/ WalletEvent
    \/ ReceiveCoin
    \/ ExternalSpend

SpecBalance == InitBalance /\ [][NextBalance]_vars

-----------------------------------------------------------------------------
(* The specification of unlocking: contexts are requested, copied and
   destroyed, and the user locks and unlocks the wallet; nothing is sent *)

InitUnlock ==
    /\ InitWallet
    /\ coinState = [c \in CoinIds |-> "avail"]
    /\ balances = NothingElse
    /\ snd = [t \in Senders |-> InitLocals(<<>>)]
    /\ encryptionStatus \in {"Unencrypted", "Locked", "Unlocked"}
    /\ fWalletUnlockStakingOnly \in BOOLEAN
    /\ context = [c \in ContextIds |-> NoContext]
    /\ relocked = [c \in ContextIds |-> 0]

NextUnlock ==
    \/ \E c \in ContextIds, granted \in BOOLEAN : requestUnlock(c, granted)
    \/ \E dst, src \in ContextIds : CopyFrom(dst, src)
    \/ \E c \in ContextIds : DestroyContext(c)
    \/ UserLock
    \/ UserUnlock

SpecUnlock == InitUnlock /\ [][NextUnlock]_vars

-----------------------------------------------------------------------------
(* The claims *)

\* the update of the address book for rcp has been applied to book
BookUpdated(book, rcp) == UpdateAddressBook(book, rcp) = book

\* the call of thread t has recorded its transaction
Committed(t) == snd[t].ret.hex # NoHex /\ snd[t].ret.hex[1] \in mapWallet

\* C1 (as claimed): whenever another thread could take the wallet lock
\* during a sendCoins call, either the wallet's transactions and address
\* book are as they were before the call, or the transaction is recorded
\* and the address-book update of every recipient is applied.
C1_NoPartialMutation ==
    \A t \in Senders :
        (snd[t].pc # "idle" /\ cs_wallet # t) =>
            \/ /\ mapWallet = snd[t].pre.mapWallet
               /\ mapAddressBook = snd[t].pre.mapAddressBook
            \/ /\ Committed(t)
               /\ \A k \in 1..Len(snd[t].recipients) :
                     BookUpdated(mapAddressBook, snd[t].recipients[k])

\* some destination address occurs more than once in the list
DuplicateDestinations(rcps) ==
    \E i, j \in 1..Len(rcps) : i # j /\ rcps[i].address.s = rcps[j].address.s

\* nothing of the coins was looked at or used by the call
NoCoinTouched(l) ==
    /\ l.calls.AvailableCoins = 0
    /\ l.calls.CreateTransaction = 0
    /\ l.calls.CommitTransaction = 0

\* C2 (as claimed): a finished call whose list has a duplicate address
\* returned DuplicateAddress and touched no coin.
C2_DuplicateAlwaysReported ==
    \A t \in Senders :
        (snd[t].pc = "done" /\ DuplicateDestinations(snd[t].recipients)) =>
            /\ snd[t].ret.status = "DuplicateAddress"
            /\ NoCoinTouched(snd[t])

AllAddressesValid(rcps) == \A k \in 1..Len(rcps) : validateAddress(rcps[k].address)
AllAmountsPositive(rcps) == \A k \in 1..Len(rcps) : rcps[k].amount > 0

\* C2 (amended): a finished call whose list has a duplicate address touched
\* no coin, and returned DuplicateAddress when every address of the list is
\* valid and every amount positive, InvalidAddress or InvalidAmount when not.
C2_DuplicateAddress ==
    \A t \in Senders :
        (snd[t].pc = "done" /\ DuplicateDestinations(snd[t].recipients)) =>
            /\ NoCoinTouched(snd[t])
            /\ mapWallet = snd[t].pre.mapWallet
            /\ IF AllAddressesValid(snd[t].recipients)
                  /\ AllAmountsPositive(snd[t].recipients)
               THEN snd[t].ret.status = "DuplicateAddress"
               ELSE snd[t].ret.status \in {"InvalidAddress", "InvalidAmount"}

C2_Witness ==
    \E t \in Senders :
        /\ snd[t].pc = "done"
        /\ DuplicateDestinations(snd[t].recipients)
        /\ snd[t].ret.status = "DuplicateAddress"

NonPositiveAt(rcps) == {k \in 1..Len(rcps) : rcps[k].amount <= 0}

\* C3 (as claimed): a finished call whose list has an amount <= 0 returned
\* InvalidAmount, took no lock and never listed the available coins.
C3_InvalidAmountAlways ==
    \A t \in Senders :
        (snd[t].pc = "done" /\ NonPositiveAt(snd[t].recipients) # {}) =>
            /\ snd[t].ret.status = "InvalidAmount"
            /\ snd[t].calls.Lock = 0
            /\ snd[t].calls.AvailableCoins = 0

\* C3 (amended): a finished call whose list has an amount <= 0 took no
\* lock and never listed the available coins; it returned InvalidAmount
\* when the addresses of the recipients up to and including the first such
\* amount are all valid, and InvalidAddress when one of them is not.
C3_InvalidAmount ==
    \A t \in Senders :
        LET rcps == snd[t].recipients
            first == Min(NonPositiveAt(rcps))
        IN (snd[t].pc = "done" /\ NonPositiveAt(rcps) # {}) =>
              /\ snd[t].calls.Lock = 0
              /\ snd[t].calls.AvailableCoins = 0
              /\ IF \A k \in 1..first : validateAddress(rcps[k].address)
                 THEN snd[t].ret.status = "InvalidAmount"
                 ELSE snd[t].ret.status = "InvalidAddress"

C3_Witness ==
    \E t \in Senders :
        /\ snd[t].pc = "done"
        /\ \E k \in NonPositiveAt(snd[t].recipients) : snd[t].recipients[k].amount < 0
        /\ snd[t].ret.status = "InvalidAmount"

\* C4 (as claimed, for a request whose addresses and amounts are valid
\* and whose total and fee the balance covers): a finished call with a
\* narration of more than 24 raw bytes returned NarrationTooLong, whatever
\* the key agreement and the encryption did.
C4_NarrationTooLongAlways ==
    \A t \in Senders :
        (/\ snd[t].pc = "done"
         /\ snd[t].calls.Lock > 0
         /\ \E k \in 1..Len(snd[t].recipients) :
               Len(toStdString(snd[t].recipients[k].narration)) > MaxNarration) =>
            snd[t].ret.status = "NarrationTooLong"

\* the transaction a call has recorded, once it has
CommittedTx(t) == snd[t].ret.hex[1]

\* a recipient sent by the stealth branch: stealth kind, stealth address
StealthKind(rcp) == rcp.typeInd = AT_Stealth /\ rcp.address.enc = "stealth"

\* the 1-based places in vout of the payment to the one-time key of rcp
StealthPayments(vout, rcp) ==
    {i \in 1..Len(vout) : /\ vout[i].script.type = "pay"
                          /\ vout[i].script.dest = "onetime:" \o rcp.address.s
                          /\ vout[i].nValue = rcp.amount}

\* the 1-based places in vout of the data-carrier outputs of rcp
DataCarriers(vout, rcp) ==
    {i \in 1..Len(vout) : /\ vout[i].script.type = "ephem"
                          /\ vout[i].script.dest = rcp.address.s
                          /\ vout[i].nValue = 0}

ChangePlaces(vout) == {i \in 1..Len(vout) : vout[i].script.type = "change"}

PaymentIndex(vout, rcp) ==
    CHOOSE p \in 0..(Len(vout) - 1) :
        /\ vout[p + 1].script.type = "pay"
        /\ vout[p + 1].script.dest \in {Destination(rcp.address),
                                        "onetime:" \o rcp.address.s}

\* the transaction has, for recipient rcp, the narration under the key of
\* the final index of its payment output
NarrationKeyed(tx, rcp) ==
    LET key == "n_" \o ToString(PaymentIndex(tx.vout, rcp))
    IN /\ key \in DOMAIN tx.mapValue
       /\ tx.mapValue[key] = toStdString(rcp.narration)

StandardKind(rcp) == rcp.typeInd = AT_Normal /\ rcp.address.enc = "std"
Narrated(rcp) == Len(rcp.narration) > 0

\* a recorded send to two narrated recipients of the kind given, with the
\* change output between the outputs of the first and of the second
TwoNarratedChangeBetween(t, Kind(_)) ==
    /\ Committed(t)
    /\ Len(snd[t].recipients) = 2
    /\ \A k \in 1..2 : Kind(snd[t].recipients[k]) /\ Narrated(snd[t].recipients[k])
    /\ ChangePlaces(CommittedTx(t).vout) = {3}

\* C6 (as claimed): with two standard narrated recipients and the change
\* between their outputs, the recorded transaction has a narration key for
\* each, equal to the final index of its output.
C6_StandardNarrationKeys ==
    \A t \in Senders :
        TwoNarratedChangeBetween(t, StandardKind) =>
            \A k \in 1..2 : NarrationKeyed(CommittedTx(t), snd[t].recipients[k])

\* C6 (amended): with two stealth narrated recipients and the change
\* between their outputs, the recorded transaction has a narration key for
\* each, equal to the final index of its payment output, and no other key;
\* with two standard narrated recipients it has no narration key at all.
C6_StealthNarrationKeys ==
    \A t \in Senders :
        /\ TwoNarratedChangeBetween(t, StealthKind) =>
              /\ \A k \in 1..2 : NarrationKeyed(CommittedTx(t), snd[t].recipients[k])
              /\ Cardinality(DOMAIN CommittedTx(t).mapValue) = 2
        /\ TwoNarratedChangeBetween(t, StandardKind) =>
              DOMAIN CommittedTx(t).mapValue = {}

C6_Witness ==
    \E t \in Senders :
        /\ TwoNarratedChangeBetween(t, StealthKind)
        /\ DOMAIN CommittedTx(t).mapValue = {"n_0", "n_3"}

AvailableBalance == SumCoins(AvailableCoins(coinState))

\* C7: a call whose fee was declined has returned Aborted without calling
\* CommitTransaction, holds no lock and no reserved key, and left the
\* transactions and the address book as before the call; and no step
\* taken from the moment the call holds cs_main up to the answer changes
\* the coins, the transactions, the address book or the keys used, so that
\* the same request made again finds the available balance it found.
C7_DeclineLeavesNothing ==
    /\ [](\A t \in Senders :
             snd[t].declined =>
                /\ snd[t].pc = "done"
                /\ snd[t].ret.status = "Aborted"
                /\ snd[t].calls.CommitTransaction = 0
                /\ mapWallet = snd[t].pre.mapWallet
                /\ mapAddressBook = snd[t].pre.mapAddressBook
                /\ t \notin reservedKeys
                /\ cs_main # t /\ cs_wallet # t)
    /\ [][\A t \in Senders :
             snd[t].pc \in {"lock_wallet", "build", "create", "askfee"} =>
                /\ AvailableBalance' = AvailableBalance
                /\ coinState' = coinState
                /\ mapWallet' = mapWallet
                /\ mapAddressBook' = mapAddressBook
                /\ nKeysUsed' = nKeysUsed]_vars

\* a declined call that had a change key reserved
C7_Witness ==
    \E t \in Senders :
        /\ snd[t].declined
        /\ snd[t].ret.status = "Aborted"
        /\ snd[t].nChangePos > -1
        /\ AvailableBalance = snd[t].nBalance

SendResults ==
    {"OK", "InvalidAddress", "InvalidAmount", "DuplicateAddress",
     "AmountExceedsBalance", "AmountWithFeeExceedsBalance", "NarrationTooLong",
     "TransactionCreationFailed", "TransactionCommitFailed", "Aborted"}

StageRank(stage) ==
    CASE stage = "NotStarted" -> 0
      [] stage = "Validating" -> 1
      [] stage = "Selecting" -> 2
      [] stage = "Building" -> 3
      [] stage = "AwaitingFeeConfirmation" -> 4
      [] stage = "Committing" -> 5
      [] stage = "Returned" -> 6

\* a step of t keeps the order of the stages: it stays in its stage, goes
\* to the next one, ends in Done (OK) from Committing, or ends in a
\* failure from any stage; a new call starts at Validating
StageStepInOrder(t) ==
    LET a == StageOf(snd[t].pc)
        b == StageOf(snd'[t].pc)
    IN \/ b = a /\ snd'[t].nReturns = snd[t].nReturns
       \/ a \in {"NotStarted", "Returned"} /\ b = "Validating"
       \/ b # "Returned" /\ StageRank(a) >= 1 /\ StageRank(b) = StageRank(a) + 1
       \/ b = "Returned" /\ a = "Committing" /\ snd'[t].ret.status = "OK"
       \/ b = "Returned" /\ StageRank(a) \in 1..5 /\ snd'[t].ret.status # "OK"

\* a call has one result when it has returned and none before
OneResult(t) ==
    /\ snd[t].nReturns = IF snd[t].pc = "done" THEN 1 ELSE 0
    /\ snd[t].pc = "done" => snd[t].ret.status \in SendResults
    /\ snd[t].pc \notin {"done", "addrbook"} => snd[t].ret = NoRet

\* C9 (as claimed): every call goes through the stages in their order and
\* gives exactly one result.
C9_StagesInOrder ==
    /\ [][\A t \in Senders : StageStepInOrder(t)]_vars
    /\ [](\A t \in Senders : OneResult(t))

\* C9 (amended): every call with a list that is not empty goes through the
\* stages in their order; a call with an empty list returns OK straight
\* from the entry check; every call gives exactly one result.
C9_StagesInOrderUnlessEmpty ==
    /\ [][\A t \in Senders :
             \/ StageStepInOrder(t)
             \/ /\ snd[t].recipients = <<>>
                /\ snd[t].pc = "validate" /\ snd'[t].pc = "done"
                /\ snd'[t].ret.status = "OK"]_vars
    /\ [](\A t \in Senders : OneResult(t))

\* a call with recipients that went through every stage to Done
C9_Witness ==
    \E t \in Senders :
        /\ snd[t].pc = "done"
        /\ snd[t].ret.status = "OK"
        /\ snd[t].recipients # <<>>
        /\ snd[t].calls.AskFee = 1 /\ snd[t].calls.CommitTransaction = 1

\* the request of C10: one standard recipient, no narration, amount 500
PlainTo500 ==
    <<[address |-> AddrA, amount |-> 500, narration |-> <<>>,
       typeInd |-> AT_Normal, label |-> "shop"]>>

ChangeValues(vout) == {vout[i].nValue : i \in ChangePlaces(vout)}
WithoutChange(vout) == SelectSeq(vout, LAMBDA o : o.script.type # "change")

\* C10: for that request with an available balance of 1000 and a fee of 10:
\* the outputs handed to CreateTransaction are the one payment of 500; the
\* transaction built from coins worth 1000 has them and one change output
\* of 490; once the fee is approved and the commit has succeeded the call
\* returns OK with the id of that transaction, which the wallet holds.
C10_Send500Of1000 ==
    \A t \in Senders :
        LET l == snd[t]
        IN (l.recipients = PlainTo500 /\ l.nBalance = 1000 /\ l.nFeeRequired = 10
            /\ l.fCreated) =>
              /\ l.pc \in {"askfee", "commit"} =>
                    /\ l.vecSend = <<Out(PayScript("A"), 500)>>
                    /\ WithoutChange(l.wtx.vout) = l.vecSend
                    /\ SetSum(l.wtx.vin) = 1000 =>
                          /\ ChangeValues(l.wtx.vout) = {490}
                          /\ Cardinality(ChangePlaces(l.wtx.vout)) = 1
              /\ l.pc = "addrbook" => Committed(t)
              /\ (l.pc = "done" /\ l.calls.CommitTransaction = 1
                  /\ l.ret.status # "TransactionCommitFailed") =>
                    /\ l.ret.status = "OK"
                    /\ Committed(t)
                    /\ WithoutChange(CommittedTx(t).vout) = <<Out(PayScript("A"), 500)>>
                    /\ SetSum(CommittedTx(t).vin) = 1000 =>
                          ChangeValues(CommittedTx(t).vout) = {490}

C10_Witness ==
    \E t \in Senders :
        /\ snd[t].recipients = PlainTo500
        /\ snd[t].nBalance = 1000 /\ snd[t].nFeeRequired = 10
        /\ snd[t].pc = "done" /\ snd[t].ret.status = "OK"
        /\ Committed(t)
        /\ ChangeValues(CommittedTx(t).vout) = {490}

-----------------------------------------------------------------------------
(* Claims on the results for want of funds and on what follows construction *)

\* C11 (as claimed): whenever sendCoins compares the funds, before the
\* locks or after a construction that failed, and the available coins are
\* worth less than the total, it returns AmountExceedsBalance; and when
\* they are worth the total but not the total and the fee, it returns
\* AmountWithFeeExceedsBalance with that fee.
C11_InsufficientAlwaysReported ==
    [][\A t \in Senders :
          LET l == snd[t]
              m == snd'[t]
              fee == IF l.pc = "select" THEN nTransactionFee ELSE m.nFeeRequired
          IN (l.pc \in {"select", "create"} /\ m.pc = "done") =>
                /\ AvailableBalance < l.total =>
                      m.ret.status = "AmountExceedsBalance"
                /\ (AvailableBalance >= l.total /\ AvailableBalance < l.total + fee) =>
                      /\ m.ret.status = "AmountWithFeeExceedsBalance"
                      /\ m.ret.fee = fee]_vars

-----------------------------------------------------------------------------
(* Claims on the threads together *)

\* the poll is at a TRY_LOCK of a section another thread holds
PollFindsHeld ==
    \/ thr[Poller].pc = "try_main" /\ cs_main \notin {Free, Poller}
    \/ thr[Poller].pc = "try_wallet" /\ cs_wallet \notin {Free, Poller}

Threads == Senders \cup Others

\* the section thread t is waiting for, if any: LOCK2 and LOCK wait,
\* TRY_LOCK never does
AwaitsMain(t) ==
    IF t \in Senders THEN snd[t].pc = "lock_main"
    ELSE t # Poller /\ thr[t].pc = "lock_main"
AwaitsWallet(t) ==
    IF t \in Senders THEN snd[t].pc \in {"lock_wallet", "addrbook"}
    ELSE t # Poller /\ thr[t].pc = "lock_wallet"
Waiting(t) ==
    \/ AwaitsMain(t) /\ cs_main # Free
    \/ AwaitsWallet(t) /\ cs_wallet # Free

\* thread t is inside a function that takes the sections
InFunction(t) ==
    IF t \in Senders THEN snd[t].pc \notin {"idle", "done"} ELSE thr[t].pc # "idle"

ThreadStep(t) ==
    IF t \in Senders THEN SendCoins(t)
    ELSE IF t = Poller THEN pollBalanceChanged(t) ELSE WalletOp(t)

\* C13: no step takes cs_main for a thread that holds wallet->cs_wallet,
\* so whoever holds both took cs_main first; no thread holds
\* wallet->cs_wallet while it waits for cs_main; and there is no deadlock:
\* a section is held only by a thread inside one of the functions, the
\* holder of wallet->cs_wallet waits for nothing and always has a step to
\* take, and the holder of cs_main has a step to take unless it waits for
\* wallet->cs_wallet, so every wait comes to an end.
C13_LockOrderNoDeadlock ==
    /\ [][\A t \in Threads :
             (cs_main' = t /\ cs_main # t) => (cs_wallet # t /\ cs_wallet' # t)]_vars
    /\ [](\A t \in Threads :
             /\ ~(cs_wallet = t /\ AwaitsMain(t))
             /\ (cs_main = t \/ cs_wallet = t) => InFunction(t)
             /\ cs_wallet = t => (~Waiting(t) /\ ENABLED ThreadStep(t))
             /\ cs_main = t =>
                   \/ ~Waiting(t) /\ ENABLED ThreadStep(t)
                   \/ AwaitsWallet(t) /\ cs_wallet \notin {Free, t})

\* the sections are contended: one sendCoins holds cs_main and waits for
\* wallet->cs_wallet, which a single-lock function holds, while the other
\* sendCoins waits for cs_main and a poll is under way
C13_Witness ==
    /\ \E t, u \in Senders :
          /\ snd[t].pc = "lock_wallet" /\ cs_main = t
          /\ snd[u].pc = "lock_main"
    /\ cs_wallet = Reader /\ thr[Reader].fn \in LockFunctions
    /\ thr[Poller].pc = "try_main"

-----------------------------------------------------------------------------
(* Claims on the change key, the narrations and the order of the calls *)

\* C14: a thread has a change key reserved only between the construction
\* and the commit of its call; every return of sendCoins after the
\* construction began that is not a commit with success (construction
\* failed, fee above the balance, fee declined, commit failed) leaves the
\* thread without a reserved key and the keys used as they were; a commit
\* with success uses the reserved key for good; and nothing else does.
C14_ChangeKeyScoped ==
    /\ [](\A t \in Senders :
             snd[t].pc \notin {"askfee", "commit"} => t \notin reservedKeys)
    /\ [][\A t \in Senders :
             LET l == snd[t]
                 m == snd'[t]
             IN /\ (l.pc \in {"create", "askfee", "commit"} /\ m.pc = "done") =>
                      /\ m.ret.status \in {"TransactionCreationFailed",
                                           "AmountWithFeeExceedsBalance", "Aborted",
                                           "TransactionCommitFailed"}
                      /\ t \notin reservedKeys'
                      /\ nKeysUsed' = nKeysUsed
                /\ (l.pc = "commit" /\ m.pc = "addrbook") =>
                      /\ t \notin reservedKeys'
                      /\ nKeysUsed' = IF t \in reservedKeys THEN nKeysUsed + 1
                                      ELSE nKeysUsed]_vars
    /\ [][nKeysUsed' # nKeysUsed =>
             \E t \in Senders : snd[t].pc = "commit" /\ snd'[t].pc = "addrbook"]_vars

\* a commit that failed, with a change key reserved for it, after an
\* earlier call kept its key
C14_Witness ==
    \E t \in Senders :
        /\ snd[t].pc = "done"
        /\ snd[t].ret.status = "TransactionCommitFailed"
        /\ snd[t].nChangePos > -1
        /\ t \notin reservedKeys
        /\ nKeysUsed = 1

\* the final position of the narration recorded at position p, the change
\* being at position c (-1: no change)
FinalPosition(p, c) == IF c > -1 /\ p >= c THEN p + 1 ELSE p

\* the k-th recipient is stealth, its payment output is the one at the
\* 0-based position p of vecSend, and its narration is sNarr
PaymentOfAt(l, k, p, sNarr) ==
    /\ StealthKind(l.recipients[k])
    /\ l.vecSend[p + 1] = Out(PayScript("onetime:" \o l.recipients[k].address.s),
                              l.recipients[k].amount)
    /\ toStdString(l.recipients[k].narration) = sNarr

\* C15: once the transaction is constructed, every narration recorded at
\* position p is in its metadata under the key of p + 1 when there is a
\* change position c and p >= c, and of p otherwise; p is the position in
\* vecSend of the payment output of the recipient the narration is of, and
\* the key is the position of that output in the transaction; and the
\* metadata has as many keys as narrations were recorded.
C15_NarrationShift ==
    \A t \in Senders :
        LET l == snd[t]
        IN (l.pc \in {"askfee", "commit"}) =>
              /\ \A e \in l.mapStealthNarr :
                    LET final == FinalPosition(e[1], l.nChangePos)
                        key == "n_" \o ToString(final)
                    IN /\ key \in DOMAIN l.wtx.mapValue
                       /\ l.wtx.mapValue[key] = e[2]
                       /\ \E k \in 1..Len(l.recipients) :
                             PaymentOfAt(l, k, e[1], e[2])
                       /\ l.wtx.vout[final + 1] = l.vecSend[e[1] + 1]
              /\ Cardinality(DOMAIN l.wtx.mapValue) = Cardinality(l.mapStealthNarr)

\* two narrations recorded, the change at the position of the second
C15_Witness ==
    \E t \in Senders :
        /\ snd[t].pc = "askfee"
        /\ Cardinality(snd[t].mapStealthNarr) = 2
        /\ \E e \in snd[t].mapStealthNarr : e[1] = snd[t].nChangePos /\ e[1] > 0
        /\ DOMAIN snd[t].wtx.mapValue = {"n_0", "n_3"}

InputErrors ==
    {"InvalidAddress", "InvalidAmount", "DuplicateAddress", "NarrationTooLong"}

\* C16 (as claimed): a call that returned InvalidAddress, InvalidAmount,
\* DuplicateAddress or NarrationTooLong never took a critical section and
\* never listed the available coins.
C16_InputErrorsBeforeLock ==
    \A t \in Senders :
        (snd[t].pc = "done" /\ snd[t].ret.status \in InputErrors) =>
            /\ snd[t].calls.Lock = 0
            /\ snd[t].calls.AvailableCoins = 0

\* C17 (as claimed): when the construction fails although the available
\* coins are worth the total and the fee construction came to, the failure
\* has another reason than the funds and sendCoins returns
\* TransactionCreationFailed, also when the coins changed between the
\* pre-check and the construction; when the coins are as the pre-check found
\* them and worth less than the total and that fee, it returns
\* AmountWithFeeExceedsBalance with that fee.
C17_CreationFailureMapping ==
    [][\A t \in Senders :
          LET l == snd[t]
              m == snd'[t]
          IN (l.pc = "create" /\ m.pc = "done") =>
                /\ AvailableBalance >= l.total + m.nFeeRequired =>
                      m.ret.status = "TransactionCreationFailed"
                /\ (AvailableBalance < l.total + m.nFeeRequired
                    /\ AvailableBalance = l.nBalance) =>
                      /\ m.ret.status = "AmountWithFeeExceedsBalance"
                      /\ m.ret.fee = m.nFeeRequired]_vars

\* C18: CommitTransaction is called, or about to be, only in a call whose
\* one construction succeeded and whose fee was asked once and approved;
\* once it has been called the call is updating the address book or has
\* returned OK or TransactionCommitFailed; and the address book is updated
\* only by a call whose commit succeeded, which has the id of its
\* transaction by then.
C18_CommitOrdering ==
    \A t \in Senders :
        LET l == snd[t]
        IN /\ (l.pc = "commit" \/ l.calls.CommitTransaction > 0) =>
                 /\ l.fCreated /\ l.calls.CreateTransaction = 1
                 /\ l.calls.AskFee = 1 /\ ~l.declined
           /\ l.calls.CommitTransaction > 0 =>
                 /\ l.calls.CommitTransaction = 1
                 /\ l.pc \in {"addrbook", "done"}
                 /\ l.pc = "done" => l.ret.status \in {"OK", "TransactionCommitFailed"}
           /\ (l.pc = "addrbook" \/ l.calls.AddressBook > 0) =>
                 /\ l.calls.CommitTransaction = 1
                 /\ l.fCommitted
                 /\ l.ret.hex # NoHex
                 /\ l.pc = "done" => l.ret.status = "OK"

\* the address book is being updated, one recipient done and one to do,
\* after a commit with success
C18_Witness ==
    \E t \in Senders :
        /\ snd[t].pc = "addrbook"
        /\ snd[t].calls.AddressBook = 1
        /\ snd[t].calls.CommitTransaction = 1
        /\ Len(snd[t].recipients) = 2

-----------------------------------------------------------------------------
(* Claims on the outputs of a standard recipient *)

\* the payment output of a recipient that is not sent by the stealth branch
StandardPayment(rcp) == Out(PayScript(Destination(rcp.address)), rcp.amount)

\* a zero-value output with these return-data pushes: tag and bytes
ReturnData(tag, bytes) ==
    Out([type |-> "narr", dest |-> "", desc |-> tag, data |-> bytes], 0)

\* the fixed descriptor tag: the two bytes of "np"
DescriptorTag == <<110, 112>>

\* the outputs built for a request none of whose recipients is stealth
\* are, recipient after recipient, those that Expected gives
StandardOutputsAre(l, Expected(_)) ==
    (/\ l.pc = "create"
     /\ \A k \in 1..Len(l.recipients) : ~StealthKind(l.recipients[k])) =>
        l.vecSend = Concat([k \in 1..Len(l.recipients) |-> Expected(l.recipients[k])])

\* as claimed: the payment, then one output with the tag and one with the
\* bytes of the narration
TwoReturnDataOutputs(rcp) ==
    IF Narrated(rcp)
    THEN <<StandardPayment(rcp), ReturnData(DescriptorTag, NoData),
           ReturnData(NoData, toStdString(rcp.narration))>>
    ELSE <<StandardPayment(rcp)>>

\* as built: the payment, then one output with the tag and the bytes
OneReturnDataOutput(rcp) ==
    IF Narrated(rcp)
    THEN <<StandardPayment(rcp),
           ReturnData(DescriptorTag, toStdString(rcp.narration))>>
    ELSE <<StandardPayment(rcp)>>

\* C19 (as claimed): a standard recipient with a narration of at most 24
\* bytes contributes its payment output and, right after it, two
\* zero-value return-data outputs, one with the 2-byte descriptor tag and
\* one with the raw bytes of the narration; one without narration
\* contributes its payment output only.
C19_TwoNarrationOutputs ==
    \A t \in Senders : StandardOutputsAre(snd[t], TwoReturnDataOutputs)

\* C19 (amended): a standard recipient with a narration of at most 24
\* bytes contributes its payment output and, right after it, one
\* zero-value output whose script has two return-data pushes, the 2-byte
\* descriptor tag "np" and the raw bytes of the narration; one without
\* narration contributes its payment output only.
C19_OneNarrationOutput ==
    \A t \in Senders : StandardOutputsAre(snd[t], OneReturnDataOutput)

\* the outputs are built for a standard recipient without narration and
\* one with a narration of 24 bytes
C19_Witness ==
    \E t \in Senders :
        /\ snd[t].pc = "create"
        /\ Len(snd[t].recipients) = 2
        /\ \A k \in 1..2 : StandardKind(snd[t].recipients[k])
        /\ ~Narrated(snd[t].recipients[1])
        /\ Len(toStdString(snd[t].recipients[2].narration)) = MaxNarration
        /\ Len(snd[t].vecSend) = 3

-----------------------------------------------------------------------------
(* Claims on concurrent calls of sendCoins *)

\* the call of t is between the start of the per-recipient loop and the
\* end of the commit
InSection(t) == snd[t].pc \in {"build", "create", "askfee", "commit"}

\* C20: at most one call at a time is between the start of building and the
\* end of the commit, and it holds cs_main and wallet->cs_wallet all the
\* while, the wait for the answer on the fee included; and while a call is
\* there, every step that is not its own leaves the coins, the
\* transactions, the address book and the keys as they are and is no
\* construction or commit of another call.
C20_SendsSerialize ==
    /\ [](/\ Cardinality({t \in Senders : InSection(t)}) <= 1
          /\ \A t \in Senders : InSection(t) => (cs_main = t /\ cs_wallet = t))
    /\ [][\A t \in Senders :
             (InSection(t) /\ snd'[t] = snd[t]) =>
                /\ wallet' = wallet
                /\ cs_main' = t /\ cs_wallet' = t
                /\ \A u \in Senders \ {t} :
                      /\ snd'[u].calls.CreateTransaction = snd[u].calls.CreateTransaction
                      /\ snd'[u].calls.CommitTransaction = snd[u].calls.CommitTransaction
                      /\ ~InSection(u)']_vars

\* one call waits for the answer on the fee while the other, past its
\* pre-check, waits for cs_main, and so does the thread that reads
C20_Witness ==
    \E t, u \in Senders :
        /\ snd[t].pc = "askfee"
        /\ snd[u].pc = "lock_main" /\ snd[u].calls.AvailableCoins = 1
        /\ thr[Reader].pc = "lock_main"

-----------------------------------------------------------------------------
(* Claims on the empty request *)

\* C21: a call of sendCoins with no recipient is at the entry check or has
\* returned OK with no fee and no transaction id; it has not listed the
\* coins, taken a critical section, had a transaction constructed, asked
\* for the fee, committed or updated the address book; it holds no section
\* and no reserved key; and its steps leave the wallet, the sections and
\* everything else outside the call as they are.
C21_EmptyRequest ==
    /\ [](\A t \in Senders :
             (snd[t].recipients = <<>> /\ snd[t].pc # "idle") =>
                /\ snd[t].pc \in {"validate", "done"}
                /\ snd[t].calls = ZeroCalls
                /\ cs_main # t /\ cs_wallet # t /\ t \notin reservedKeys
                /\ snd[t].pc = "done" =>
                      snd[t].ret = [status |-> "OK", fee |-> 0, hex |-> NoHex])
    /\ [][\A t \in Senders :
             (snd[t].recipients = <<>> /\ snd'[t] # snd[t]) =>
                /\ wallet' = wallet
                /\ cs_main' = cs_main /\ cs_wallet' = cs_wallet
                /\ gui' = gui]_vars

\* the empty request has returned while the wallet has coins to send
C21_Witness ==
    \E t \in Senders :
        /\ snd[t].recipients = <<>>
        /\ snd[t].pc = "done"
        /\ snd[t].ret.status = "OK"
        /\ snd[t].nReturns = 1
        /\ AvailableBalance > 0

-----------------------------------------------------------------------------
(* Claims on the balance cache *)

\* the five balances checkBalanceChanged reads
Balances ==
    <<getUnlockedBalance, getLockedBalance, getStakeAmount,
      getUnconfirmedBalance, getImmatureBalance>>

\* a step that is a call of checkBalanceChanged
IsCheck == cachedNumBlocks' # cachedNumBlocks

\* C22: after one call of checkBalanceChanged, a further call made while
\* the unlocked, locked, staked, unconfirmed and immature balances are all
\* what the last call read emits no balanceChanged signal.
C22_NoSignalWhenUnchanged ==
    [][(IsCheck /\ lastRead = Balances) => balanceChanged' = NoSignal]_vars

-----------------------------------------------------------------------------
(* Claims on the unlock context *)

\* the call that made the context behind c found the wallet locked with
\* staking-only unlock off, and the wallet was then unlocked
MadeFromLocked(c) ==
    /\ context[c].call.status = "Locked"
    /\ ~context[c].call.stakingOnly
    /\ context[c].call.unlocked

\* the call that made the context behind c found the wallet unlocked
MadeFromUnlocked(c) == context[c].call.status = "Unlocked"

\* object c is destroyed in this step
Destroyed(c) == context[c].life = "live" /\ context'[c].life = "gone"

\* the objects that carry the context of the call that made object r
Carriers(r) == {c \in ContextIds : context[c].life # "none" /\ context[c].root = r}

\* C23: for a call of requestUnlock that found the wallet locked, with
\* staking-only unlock off, and had it unlocked: the wallet is locked when
\* the object that carries the context and was never the source of a
\* CopyFrom is destroyed; the destruction of a source of CopyFrom changes
\* nothing; so the destructors lock the wallet once when that one object
\* is gone and not before.  The destruction of a context made while the
\* wallet was unlocked never locks the wallet.
C23_RelockOnce ==
    /\ [][\A c \in ContextIds :
             Destroyed(c) =>
                /\ (MadeFromLocked(c) /\ ~context[c].moved) =>
                      encryptionStatus' = "Locked"
                /\ (MadeFromLocked(c) /\ context[c].moved) =>
                      /\ encryptionStatus' = encryptionStatus
                      /\ relocked' = relocked
                /\ MadeFromUnlocked(c) =>
                      /\ encryptionStatus' = encryptionStatus
                      /\ relocked' = relocked]_vars
    /\ [](\A r \in ContextIds :
             (context[r].life # "none" /\ context[r].root = r) =>
                /\ MadeFromLocked(r) =>
                      /\ Cardinality({c \in Carriers(r) : ~context[c].moved}) = 1
                      /\ relocked[r] =
                            IF \E c \in Carriers(r) :
                                  ~context[c].moved /\ context[c].life = "gone"
                            THEN 1 ELSE 0
                /\ MadeFromUnlocked(r) => relocked[r] = 0)

\* a context made from a locked wallet was transferred, source and receiver
\* are both gone and the wallet was locked once and is locked; a context
\* made while the wallet was unlocked is gone as well
C23_Witness ==
    \E r, d, u \in ContextIds :
        /\ r # d /\ context[r].root = r /\ context[d].root = r
        /\ MadeFromLocked(r)
        /\ context[r].moved /\ ~context[d].moved
        /\ context[r].life = "gone" /\ context[d].life = "gone"
        /\ relocked[r] = 1
        /\ encryptionStatus = "Locked"
        /\ context[u].root = u /\ MadeFromUnlocked(u) /\ context[u].life = "gone"

=============================================================================
